---- MODULE Spec2Model ----
(***************************************************************************)
(* State-machine model of the two algorithmic classes of the AR hand       *)
(* control system:                                                         *)
(*   - AdvancedGestureRecognizer (gesture_recognition_advanced.py), the    *)
(*     "Gesture Classifier": scoring, bounded gesture history, 3-entry     *)
(*     temporal pattern;                                                   *)
(*   - KalmanFilter / HandTrackingOptimizer (hand_tracking_optimizer.py),  *)
(*     the "Landmark Stabilizer": 21 scalar-gain filters, the position and *)
(*     velocity deques, prediction, occlusion handling, quality report.    *)
(*                                                                         *)
(* Conventions                                                             *)
(*   - A landmark set is a function 0..n-1 -> <<x, y, z>>; the code's      *)
(*     landmarks[i][1] (the vertical coordinate) is lm[i][2] here.         *)
(*   - Python's None is the value None below.                              *)
(*   - Scores, weights and confidences are integers in hundredths          *)
(*     (0.7 is 70, 0.95 is 95, 1.0 is 100).                                *)
(*   - Filter estimates and variances are exact rationals <<num, den>> in  *)
(*     lowest terms with den > 0 (the code uses binary floating point).    *)
(*   - ret is the last call's outcome: <<"None", <<>> >> for a returned    *)
(*     None, <<"return", v>> for a returned value, <<"raise", e>> for an   *)
(*     exception that reaches the caller.                                  *)
(***************************************************************************)
EXTENDS Integers, Sequences, FiniteSets, TLC

VARIABLES
    gesture_history,    \* AdvancedGestureRecognizer.gesture_history (deque)
    history_before,     \* gesture_history as it was when the last call began
    labelled,           \* detect_gesture_combination has returned a label
    kalman_filters,     \* HandTrackingOptimizer.kalman_filters, index 0..20
    other_filters,      \* kalman_filters of a second HandTrackingOptimizer
    position_buffer,    \* HandTrackingOptimizer.position_buffer (deque)
    velocity_history,   \* HandTrackingOptimizer.velocity_history (deque)
    frames,             \* number of calls so far that stepped a filter
    call,               \* the last call: [op, landmarks, confidence]
    ret                 \* the last call's outcome

vars == <<gesture_history, history_before, labelled, kalman_filters, other_filters,
          position_buffer, velocity_history, frames, call, ret>>

classifier_vars == <<gesture_history, history_before, labelled>>

stabilizer_vars ==
    <<kalman_filters, other_filters, position_buffer, velocity_history, frames>>

----------------------------------------------------------------------------
(* Bounds of the model *)

\* capacity the recognizer is constructed with (history_length argument,
\* 10 when omitted)
history_length == 4

\* capacity the optimizer is constructed with (buffer_size argument, 5 when
\* omitted)
buffer_size == 3

\* largest coordinate of the positions and raw landmarks fed in
MaxCoord == 1

\* calls that step a filter (smoothing passes on non-None input, direct
\* update and predict calls) per run
MaxFrames == 2

----------------------------------------------------------------------------
(* Values shared by both classes *)

None == <<"None">>

ReturnNone == <<"None", <<>> >>

Return(v) == <<"return", v>>

Raise(e) == <<"raise", e>>

\* a returned Optional value
ReturnOpt(v) == IF v = None THEN ReturnNone ELSE Return(v)

NumLandmarks == 21

Last(s) == s[Len(s)]

\* collections.deque(maxlen=n).append(x): drops the leftmost entry when full
DequeAppend(q, x, maxlen) ==
    IF maxlen = 0 THEN q
    ELSE IF Len(q) < maxlen THEN Append(q, x)
    ELSE Append(Tail(q), x)

NewCall(op, landmarks, confidence) ==
    [op |-> op, landmarks |-> landmarks, confidence |-> confidence]

----------------------------------------------------------------------------
(* AdvancedGestureRecognizer *)

confidence_threshold == 70

\* the keys of gesture_definitions in dict (insertion) order
GestureNames == <<"open_palm", "fist", "peace", "thumbs_up", "point">>

\* _load_gestures: thumbs_up has no 'fingers_extended' key
gesture_definitions ==
    [name \in {GestureNames[i] : i \in 1..Len(GestureNames)} |->
        CASE name = "open_palm" -> [fingers_extended |-> 5, confidence_weight |-> 100]
          [] name = "fist"      -> [fingers_extended |-> 0, confidence_weight |-> 95]
          [] name = "peace"     -> [fingers_extended |-> 2, confidence_weight |-> 90]
          [] name = "thumbs_up" -> [confidence_weight |-> 85]
          [] name = "point"     -> [fingers_extended |-> 1, confidence_weight |-> 88]]

finger_tips == <<4, 8, 12, 16, 20>>

finger_pips == <<3, 7, 11, 15, 19>>

\* mutant: a tip level with its joint counts as extended
FingerExtended_OrLevel(landmarks, tip, pip) == landmarks[tip][2] <= landmarks[pip][2]

\* landmarks[tip][1] < landmarks[pip][1], for one (tip, pip) pair
FingerExtended(landmarks, tip, pip) == landmarks[tip][2] < landmarks[pip][2]

\* _count_extended_fingers
CountExtendedFingers(landmarks) ==
    Cardinality({k \in 1..Len(finger_tips) :
                    FingerExtended(landmarks, finger_tips[k], finger_pips[k])})

Min(a, b) == IF a < b THEN a ELSE b

\* mutant: a definition without a finger count scores its weight
CalculateGestureScore_WeightWithoutCount(fingers, gesture, definition) ==
    LET score ==
            IF "fingers_extended" \in DOMAIN definition
            THEN (IF fingers = definition.fingers_extended THEN 1 ELSE 0)
                     * definition.confidence_weight
            ELSE definition.confidence_weight
    IN  Min(100, score)

\* _calculate_gesture_score (its shape argument is never read)
CalculateGestureScore(fingers, gesture, definition) ==
    LET score ==
            IF "fingers_extended" \in DOMAIN definition
            THEN (IF fingers = definition.fingers_extended THEN 1 ELSE 0)
                     * definition.confidence_weight
            ELSE 0
    IN  Min(100, score)

\* gesture_scores.items(): <<name, score>> pairs in dict order
GestureScores(fingers) ==
    [i \in 1..Len(GestureNames) |->
        <<GestureNames[i],
          CalculateGestureScore(fingers, GestureNames[i],
                                gesture_definitions[GestureNames[i]])>>]

\* mutant: a later item replaces the running maximum on a tie too
RECURSIVE MaxByScore_LastWins(_, _, _)
MaxByScore_LastWins(items, i, best) ==
    IF i > Len(items) THEN best
    ELSE MaxByScore_LastWins(items, i + 1,
                    IF items[i][2] >= best[2] THEN items[i] ELSE best)

\* max(items, key=lambda x: x[1]): a later item replaces the running maximum
\* only when its key is strictly greater
RECURSIVE MaxByScore(_, _, _)
MaxByScore(items, i, best) ==
    IF i > Len(items) THEN best
    ELSE MaxByScore(items, i + 1,
                    IF items[i][2] > best[2] THEN items[i] ELSE best)

BestGesture(items) == MaxByScore(items, 2, items[1])

\* mutant: the threshold is not applied
Accepted_Always(score) == score >= 0

\* the test of line 64
Accepted(score) == score >= confidence_threshold

\* mutant: the history is a plain list
HistoryAppend_Unbounded(history, name) == Append(history, name)

\* self.gesture_history.append(name)
HistoryAppend(history, name) == DequeAppend(history, name, history_length)

\* mutant: the name returned is recorded whether or not it was accepted
DetectGesture_RecordsResult(hand_landmarks) ==
    /\ call' = NewCall("detect_gesture", hand_landmarks, None)
    /\ history_before' = gesture_history
    /\ labelled' = labelled
    /\ IF hand_landmarks = None
       THEN /\ ret' = Return(<<"unknown", 0>>)
            /\ gesture_history' = gesture_history
       ELSE LET fingers_extended == CountExtendedFingers(hand_landmarks)
                best_gesture == BestGesture(GestureScores(fingers_extended))
                result == IF Accepted(best_gesture[2]) THEN best_gesture
                          ELSE <<"unknown", 0>>
            IN  /\ gesture_history' = HistoryAppend(gesture_history, result[1])
                /\ ret' = Return(result)
    /\ UNCHANGED stabilizer_vars

\* mutant: no test for None, so the first subscript raises
DetectGesture_NoNoneTest(hand_landmarks) ==
    /\ call' = NewCall("detect_gesture", hand_landmarks, None)
    /\ history_before' = gesture_history
    /\ labelled' = labelled
    /\ IF hand_landmarks = None
       THEN /\ ret' = Raise("TypeError")
            /\ gesture_history' = gesture_history
       ELSE LET fingers_extended == CountExtendedFingers(hand_landmarks)
                best_gesture == BestGesture(GestureScores(fingers_extended))
            IN  IF Accepted(best_gesture[2])
                THEN /\ gesture_history' = HistoryAppend(gesture_history, best_gesture[1])
                     /\ ret' = Return(best_gesture)
                ELSE /\ ret' = Return(<<"unknown", 0>>)
                     /\ gesture_history' = gesture_history
    /\ UNCHANGED stabilizer_vars

\* mutant: a rejected frame clears the history
DetectGesture_ClearsOnReject(hand_landmarks) ==
    /\ call' = NewCall("detect_gesture", hand_landmarks, None)
    /\ history_before' = gesture_history
    /\ labelled' = labelled
    /\ IF hand_landmarks = None
       THEN /\ ret' = Return(<<"unknown", 0>>)
            /\ gesture_history' = <<>>
       ELSE LET fingers_extended == CountExtendedFingers(hand_landmarks)
                best_gesture == BestGesture(GestureScores(fingers_extended))
            IN  IF Accepted(best_gesture[2])
                THEN /\ gesture_history' = HistoryAppend(gesture_history, best_gesture[1])
                     /\ ret' = Return(best_gesture)
                ELSE /\ ret' = Return(<<"unknown", 0>>)
                     /\ gesture_history' = <<>>
    /\ UNCHANGED stabilizer_vars

\* detect_gesture.  _analyze_hand_shape is pure and its result is passed to
\* _calculate_gesture_score, which never reads it.
DetectGesture(hand_landmarks) ==
    /\ call' = NewCall("detect_gesture", hand_landmarks, None)
    /\ history_before' = gesture_history
    /\ labelled' = labelled
    /\ IF hand_landmarks = None
       THEN /\ ret' = Return(<<"unknown", 0>>)
            /\ gesture_history' = gesture_history
       ELSE LET fingers_extended == CountExtendedFingers(hand_landmarks)
                best_gesture == BestGesture(GestureScores(fingers_extended))
            IN  IF Accepted(best_gesture[2])
                THEN /\ gesture_history' = HistoryAppend(gesture_history, best_gesture[1])
                     /\ ret' = Return(best_gesture)
                ELSE /\ ret' = Return(<<"unknown", 0>>)
                     /\ gesture_history' = gesture_history
    /\ UNCHANGED stabilizer_vars

\* get_gesture_pattern
GetGesturePattern ==
    /\ call' = NewCall("get_gesture_pattern", None, None)
    /\ history_before' = gesture_history
    /\ labelled' = labelled
    /\ ret' = Return(gesture_history)
    /\ UNCHANGED <<gesture_history, stabilizer_vars>>

\* mutant: the window is the last 2 entries
GestureCombination_Window2(history) ==
    IF Len(history) < 2 THEN ReturnNone
    ELSE LET recent == SubSeq(history, Len(history) - 1, Len(history))
         IN  IF Cardinality({recent[i] : i \in 1..2}) = 1
             THEN Return("sustained_" \o recent[1])
             ELSE Return("combination")

\* the value detect_gesture_combination returns for a history
GestureCombination(history) ==
    IF Len(history) < 3 THEN ReturnNone
    ELSE LET recent == SubSeq(history, Len(history) - 2, Len(history))
         IN  IF Cardinality({recent[i] : i \in 1..3}) = 1
             THEN Return("sustained_" \o recent[1])
             ELSE Return("combination")

\* detect_gesture_combination
DetectGestureCombination ==
    /\ call' = NewCall("detect_gesture_combination", None, None)
    /\ history_before' = gesture_history
    /\ labelled' = (labelled \/ GestureCombination(gesture_history)[1] = "return")
    /\ ret' = GestureCombination(gesture_history)
    /\ UNCHANGED <<gesture_history, stabilizer_vars>>

----------------------------------------------------------------------------
(* Landmark sets fed to the recognizer *)

Fingers == 1..5

\* 21 points: every joint lies at height 1, the tips of the fingers in up
\* at height 0 (a smaller vertical coordinate, so above their joint) and the
\* other tips at height restY
HandLandmarks(up, restY) ==
    [i \in 0..(NumLandmarks - 1) |->
        IF \E k \in Fingers : finger_tips[k] = i
        THEN LET k == CHOOSE k \in Fingers : finger_tips[k] = i
             IN  <<i, IF k \in up THEN 0 ELSE restY, 0>>
        ELSE <<i, 1, 0>>]

\* the sets of raised fingers fed in: every count 0..5, and two different
\* sets for the counts 1 and 2
UpPatterns == {{}, {1}, {2}, {2, 3}, {1, 5}, {1, 2, 3}, {2, 3, 4, 5}, Fingers}

\* a tip that is not raised lies level with its joint (1) or below it (2)
RestHeights == {1, 2}

HandInputs ==
    {HandLandmarks(up, restY) : up \in UpPatterns, restY \in RestHeights}

\* the arguments detect_gesture is called with
DetectInputs == HandInputs \cup {None}

----------------------------------------------------------------------------
(* Exact rationals <<num, den>>, den > 0, in lowest terms *)

Abs(n) == IF n < 0 THEN -n ELSE n

RECURSIVE Gcd(_, _)
Gcd(a, b) == IF b = 0 THEN a ELSE Gcd(b, a % b)

Rat(n, d) ==
    LET s == IF d < 0 THEN -1 ELSE 1
        g == Gcd(Abs(n), Abs(d))
    IN  <<(s * n) \div g, (s * d) \div g>>

RAdd(a, b) == Rat(a[1] * b[2] + b[1] * a[2], a[2] * b[2])

RSub(a, b) == Rat(a[1] * b[2] - b[1] * a[2], a[2] * b[2])

RMul(a, b) == Rat(a[1] * b[1], a[2] * b[2])

RDiv(a, b) == Rat(a[1] * b[2], a[2] * b[1])

RLess(a, b) == a[1] * b[2] < b[1] * a[2]

\* a point with integer coordinates, as a vector of rationals
ToRatPoint(pt) == [c \in 1..3 |-> Rat(pt[c], 1)]

----------------------------------------------------------------------------
(* KalmanFilter *)

\* self.q (process noise) and self.r (measurement noise), both 0.1
ProcessNoise == Rat(1, 10)

MeasurementNoise == Rat(1, 10)

\* KalmanFilter.__init__
NewKalmanFilter == [x |-> None, p |-> None, initialized |-> FALSE]

\* mutant: predict adds no process noise
KalmanPredict_NoNoise(f) == f

\* KalmanFilter.predict: the filter after the call
KalmanPredict(f) ==
    IF ~f.initialized THEN f
    ELSE [f EXCEPT !.p = RAdd(f.p, ProcessNoise)]

\* KalmanFilter.predict: the value returned
KalmanPredictValue(f) == IF ~f.initialized THEN None ELSE f.x

\* mutant: no first-observation branch; the first update blends the
\* observation into a zero estimate of variance 1.0
KalmanUpdate_NoFirstBranch(f, z) ==
    LET x0 == IF f.initialized THEN f.x ELSE ToRatPoint(<<0, 0, 0>>)
        p0 == IF f.initialized THEN f.p ELSE Rat(1, 1)
        k  == RDiv(p0, RAdd(p0, MeasurementNoise))
    IN  [x |-> [c \in 1..3 |-> RAdd(x0[c], RMul(k, RSub(z[c], x0[c])))],
         p |-> RMul(RSub(Rat(1, 1), k), p0),
         initialized |-> TRUE]

\* mutant: the correction is subtracted
KalmanUpdate_SignFlipped(f, z) ==
    IF ~f.initialized
    THEN [x |-> z, p |-> Rat(1, 1), initialized |-> TRUE]
    ELSE LET k == RDiv(f.p, RAdd(f.p, MeasurementNoise))
         IN  [f EXCEPT
                !.x = [c \in 1..3 |-> RSub(f.x[c], RMul(k, RSub(z[c], f.x[c])))],
                !.p = RMul(RSub(Rat(1, 1), k), f.p)]

\* KalmanFilter.update: the filter after the call; the value returned is its x
KalmanUpdate(f, z) ==
    IF ~f.initialized
    THEN [x |-> z, p |-> Rat(1, 1), initialized |-> TRUE]
    ELSE LET k == RDiv(f.p, RAdd(f.p, MeasurementNoise))
         IN  [f EXCEPT
                !.x = [c \in 1..3 |-> RAdd(f.x[c], RMul(k, RSub(z[c], f.x[c])))],
                !.p = RMul(RSub(Rat(1, 1), k), f.p)]

----------------------------------------------------------------------------
(* HandTrackingOptimizer *)

FilterIndices == 0..(NumLandmarks - 1)

\* len(landmarks)
LandmarksLen(landmarks) == Cardinality(DOMAIN landmarks)

\* one iteration of the loop of smooth_landmarks on filter i: update, then
\* (update never returns None) predict
FilterStep(f, z) == KalmanPredict(KalmanUpdate(f, z))

\* mutant: every landmark is filtered from the state of filter 0
SmoothedFilters_FromFilterZero(filters, landmarks) ==
    [i \in FilterIndices |->
        IF i < LandmarksLen(landmarks)
        THEN FilterStep(filters[0], ToRatPoint(landmarks[i]))
        ELSE filters[i]]

\* the filters after smooth_landmarks(landmarks): the loop visits the filters
\* in index order and stops at the first index the input does not have
\* (landmarks[i] raises IndexError there)
SmoothedFilters(filters, landmarks) ==
    [i \in FilterIndices |->
        IF i < LandmarksLen(landmarks)
        THEN FilterStep(filters[i], ToRatPoint(landmarks[i]))
        ELSE filters[i]]

\* smoothed: np.zeros_like(landmarks), rows 0..20 overwritten by the value
\* predict returns (the estimate update has just set)
SmoothedOutput(filters, landmarks) ==
    [i \in DOMAIN landmarks |->
        IF i \in FilterIndices
        THEN KalmanPredictValue(KalmanUpdate(filters[i], ToRatPoint(landmarks[i])))
        ELSE ToRatPoint(<<0, 0, 0>>)]

\* mutant: the None test comes after the filters have been stepped, here on
\* the estimate each filter already holds
SmoothLandmarks_StepsOnNone(landmarks) ==
    /\ call' = NewCall("smooth_landmarks", landmarks, None)
    /\ IF landmarks = None
       THEN /\ ret' = ReturnNone
            /\ kalman_filters' = [i \in FilterIndices |-> KalmanPredict(kalman_filters[i])]
            /\ UNCHANGED frames
       ELSE /\ frames < MaxFrames
            /\ frames' = frames + 1
            /\ kalman_filters' = SmoothedFilters(kalman_filters, landmarks)
            /\ ret' = IF LandmarksLen(landmarks) < NumLandmarks
                      THEN Raise("IndexError")
                      ELSE Return(SmoothedOutput(kalman_filters, landmarks))
    /\ UNCHANGED <<other_filters, position_buffer, velocity_history, classifier_vars>>

\* mutant: each pass records the first landmark in position_buffer
SmoothLandmarks_BuffersPositions(landmarks) ==
    /\ call' = NewCall("smooth_landmarks", landmarks, None)
    /\ IF landmarks = None
       THEN /\ ret' = ReturnNone
            /\ UNCHANGED <<kalman_filters, frames, position_buffer>>
       ELSE /\ frames < MaxFrames
            /\ frames' = frames + 1
            /\ kalman_filters' = SmoothedFilters(kalman_filters, landmarks)
            /\ position_buffer' = DequeAppend(position_buffer, landmarks[0], buffer_size)
            /\ ret' = IF LandmarksLen(landmarks) < NumLandmarks
                      THEN Raise("IndexError")
                      ELSE Return(SmoothedOutput(kalman_filters, landmarks))
    /\ UNCHANGED <<other_filters, velocity_history, classifier_vars>>

\* smooth_landmarks
SmoothLandmarks(landmarks) ==
    /\ call' = NewCall("smooth_landmarks", landmarks, None)
    /\ IF landmarks = None
       THEN /\ ret' = ReturnNone
            /\ UNCHANGED <<kalman_filters, frames>>
       ELSE /\ frames < MaxFrames
            /\ frames' = frames + 1
            /\ kalman_filters' = SmoothedFilters(kalman_filters, landmarks)
            /\ ret' = IF LandmarksLen(landmarks) < NumLandmarks
                      THEN Raise("IndexError")
                      ELSE Return(SmoothedOutput(kalman_filters, landmarks))
    /\ UNCHANGED <<other_filters, position_buffer, velocity_history, classifier_vars>>

\* smooth_landmarks called on a second HandTrackingOptimizer, whose __init__
\* built its own 21 KalmanFilter objects
SmoothLandmarksOther(landmarks) ==
    /\ call' = NewCall("other.smooth_landmarks", landmarks, None)
    /\ IF landmarks = None
       THEN /\ ret' = ReturnNone
            /\ UNCHANGED <<other_filters, frames>>
       ELSE /\ frames < MaxFrames
            /\ frames' = frames + 1
            /\ other_filters' = SmoothedFilters(other_filters, landmarks)
            /\ ret' = IF LandmarksLen(landmarks) < NumLandmarks
                      THEN Raise("IndexError")
                      ELSE Return(SmoothedOutput(other_filters, landmarks))
    /\ UNCHANGED <<kalman_filters, position_buffer, velocity_history, classifier_vars>>

\* a call made on one filter: the index of the filter and the observation
NewFilterCall(op, index, z) ==
    [op |-> op, landmarks |-> z, confidence |-> None, index |-> index]

\* kalman_filters[i].update(z), called directly
KalmanFilterUpdate(i, z) ==
    /\ frames < MaxFrames
    /\ frames' = frames + 1
    /\ call' = NewFilterCall("KalmanFilter.update", i, z)
    /\ kalman_filters' =
          [kalman_filters EXCEPT ![i] = KalmanUpdate(kalman_filters[i], ToRatPoint(z))]
    /\ ret' = Return(KalmanUpdate(kalman_filters[i], ToRatPoint(z)).x)
    /\ UNCHANGED <<other_filters, position_buffer, velocity_history, classifier_vars>>

\* kalman_filters[i].predict(), called directly
KalmanFilterPredict(i) ==
    /\ frames < MaxFrames
    /\ frames' = frames + 1
    /\ call' = NewFilterCall("KalmanFilter.predict", i, None)
    /\ kalman_filters' = [kalman_filters EXCEPT ![i] = KalmanPredict(kalman_filters[i])]
    /\ ret' = ReturnOpt(KalmanPredictValue(kalman_filters[i]))
    /\ UNCHANGED <<other_filters, position_buffer, velocity_history, classifier_vars>>

\* mutant: the velocity is taken from the two oldest entries
NextPosition_OldestPair(buffer) ==
    IF Len(buffer) < 2 THEN None
    ELSE LET recent_positions == SubSeq(buffer, 1, 2)
             velocity == [c \in 1..3 |-> recent_positions[2][c] - recent_positions[1][c]]
         IN  [c \in 1..3 |-> buffer[Len(buffer)][c] + velocity[c]]

\* the value predict_next_position returns for a position buffer
NextPosition(buffer) ==
    IF Len(buffer) < 2 THEN None
    ELSE LET recent_positions == SubSeq(buffer, Len(buffer) - 1, Len(buffer))
             velocity == [c \in 1..3 |-> recent_positions[2][c] - recent_positions[1][c]]
         IN  [c \in 1..3 |-> recent_positions[2][c] + velocity[c]]

\* predict_next_position
PredictNextPosition ==
    /\ call' = NewCall("predict_next_position", None, None)
    /\ ret' = ReturnOpt(NextPosition(position_buffer))
    /\ UNCHANGED <<stabilizer_vars, classifier_vars>>

\* mutant: a confidence of exactly 0.3 counts as occluded
Occluded_AtThreshold(confidence, buffer) == confidence <= 30 /\ Len(buffer) > 0

\* the test of line 75
Occluded(confidence, buffer) == confidence < 30 /\ Len(buffer) > 0

\* handle_occlusion
HandleOcclusion(landmarks, confidence) ==
    /\ call' = NewCall("handle_occlusion", landmarks, confidence)
    /\ ret' = IF Occluded(confidence, position_buffer)
              THEN ReturnOpt(NextPosition(position_buffer))
              ELSE ReturnOpt(landmarks)
    /\ UNCHANGED <<stabilizer_vars, classifier_vars>>

\* mutant: one velocity sample is enough for stability 1.0
GetTrackingQuality_OneSample ==
    /\ call' = NewCall("get_tracking_quality", None, None)
    /\ ret' = Return([smoothness |-> Rat(Len(position_buffer), buffer_size),
                      stability  |-> IF Len(velocity_history) > 0
                                     THEN Rat(1, 1) ELSE Rat(0, 1)])
    /\ UNCHANGED <<stabilizer_vars, classifier_vars>>

\* get_tracking_quality.  Its return annotation names Dict, which the module
\* does not import: where annotations are evaluated at definition time the
\* class body raises NameError.  The model describes the class as loaded.
GetTrackingQuality ==
    /\ call' = NewCall("get_tracking_quality", None, None)
    /\ ret' = Return([smoothness |-> Rat(Len(position_buffer), buffer_size),
                      stability  |-> IF Len(velocity_history) > 1
                                     THEN Rat(1, 1) ELSE Rat(0, 1)])
    /\ UNCHANGED <<stabilizer_vars, classifier_vars>>

\* the host appends a position to the public deque position_buffer
\* (no method of the class does)
AppendPosition(pos) ==
    /\ call' = NewCall("position_buffer.append", None, None)
    /\ ret' = ReturnNone
    /\ position_buffer' = DequeAppend(position_buffer, pos, buffer_size)
    /\ UNCHANGED <<kalman_filters, other_filters, velocity_history, frames, classifier_vars>>

\* the host appends a velocity to the public deque velocity_history
AppendVelocity(vel) ==
    /\ call' = NewCall("velocity_history.append", None, None)
    /\ ret' = ReturnNone
    /\ velocity_history' = DequeAppend(velocity_history, vel, buffer_size)
    /\ UNCHANGED <<kalman_filters, other_filters, position_buffer, frames, classifier_vars>>

----------------------------------------------------------------------------
(* Inputs of the optimizer *)

\* a landmark set of n points, each landmark at its own height
RawLandmarks(n, c) == [i \in 0..(n - 1) |-> <<c, c + i, 1>>]

\* lengths fed to smooth_landmarks: one short, the contract's 21, one long
LandmarkLengths == {NumLandmarks - 1, NumLandmarks, NumLandmarks + 1}

RawInputs == {RawLandmarks(n, c) : n \in LandmarkLengths, c \in 0..MaxCoord}

\* the arguments smooth_landmarks is called with
SmoothInputs == RawInputs \cup {None}

\* the landmark arguments handle_occlusion is called with
OcclusionInputs == {None, RawLandmarks(NumLandmarks, MaxCoord)}

Positions == {<<c, MaxCoord - c, 1>> : c \in 0..MaxCoord}

Velocities == {<<1, 0, 0>>}

\* the filters called directly: the first and the last
DirectIndices == {0, NumLandmarks - 1}

\* detection confidences, in hundredths: 0.0, 0.2, 0.29, 0.3, 0.31, 1.0
Confidences == {0, 20, 29, 30, 31, 100}

----------------------------------------------------------------------------
(* Specifications *)

Init ==
    /\ gesture_history = <<>>
    /\ history_before = <<>>
    /\ labelled = FALSE
    /\ kalman_filters = [i \in FilterIndices |-> NewKalmanFilter]
    /\ other_filters = [i \in FilterIndices |-> NewKalmanFilter]
    /\ position_buffer = <<>>
    /\ velocity_history = <<>>
    /\ frames = 0
    /\ call = NewCall("__init__", None, None)
    /\ ret = ReturnNone

\* the recognizer's methods
Next ==
    \/ \E hand_landmarks \in DetectInputs : DetectGesture(hand_landmarks)
    \/ GetGesturePattern
    \/ DetectGestureCombination

Spec == Init /\ [][Next]_vars

\* the optimizer's methods
NextOptimizer ==
    \/ \E landmarks \in SmoothInputs : SmoothLandmarks(landmarks)
    \/ PredictNextPosition
    \/ \E landmarks \in OcclusionInputs, confidence \in Confidences :
          HandleOcclusion(landmarks, confidence)
    \/ GetTrackingQuality

SpecOptimizer == Init /\ [][NextOptimizer]_vars

\* the optimizer's buffer-reading methods, with a host that fills the two deques
NextHosted ==
    \/ \E pos \in Positions : AppendPosition(pos)
    \/ \E vel \in Velocities : AppendVelocity(vel)
    \/ PredictNextPosition
    \/ \E landmarks \in OcclusionInputs, confidence \in Confidences :
          HandleOcclusion(landmarks, confidence)
    \/ GetTrackingQuality

SpecHosted == Init /\ [][NextHosted]_vars

\* two optimizers smoothing, and the filters of the first called directly
NextFilters ==
    \/ \E landmarks \in SmoothInputs : SmoothLandmarks(landmarks)
    \/ \E landmarks \in SmoothInputs : SmoothLandmarksOther(landmarks)
    \/ \E i \in DirectIndices, z \in Positions : KalmanFilterUpdate(i, z)
    \/ \E i \in DirectIndices : KalmanFilterPredict(i)

SpecFilters == Init /\ [][NextFilters]_vars

----------------------------------------------------------------------------
(* Claims about AdvancedGestureRecognizer, checked under Spec *)

\* the step just taken is a call of detect_gesture on a landmark set
DetectedLandmarks == call.op = "detect_gesture" /\ call.landmarks # None

\* the definition that wins on a landmark set: <<name, score>>
Winner(landmarks) == BestGesture(GestureScores(CountExtendedFingers(landmarks)))

\* history h2 is history h1 with name appended, the oldest entry dropped to
\* make room when h1 is full
AppendedTo(h1, h2, name) ==
    IF Len(h1) < history_length
    THEN h2 = h1 \o <<name>>
    ELSE /\ Len(h2) = history_length
         /\ \A i \in 1..(history_length - 1) : h2[i] = h1[i + 1]
         /\ h2[history_length] = name

\* C1: on a non-None landmark set detect_gesture appends exactly one entry,
\* the winning definition's name, and returns (name, score) when the winning
\* score is >= confidence_threshold; otherwise it returns ("unknown", 0.0)
\* and the history is exactly what it was before the call.
C1_DetectGestureContract ==
    [][DetectedLandmarks' =>
          LET best == Winner(call'.landmarks)
          IN  IF best[2] >= confidence_threshold
              THEN /\ ret' = Return(best)
                   /\ AppendedTo(gesture_history, gesture_history', best[1])
              ELSE /\ ret' = Return(<<"unknown", 0>>)
                   /\ gesture_history' = gesture_history]_vars

C1_Witness ==
    /\ DetectedLandmarks
    /\ ret = Return(<<"peace", 90>>)
    /\ Len(history_before) = 2
    /\ gesture_history = history_before \o <<"peace">>

\* C2: the gesture history never holds more than history_length entries, and
\* an accepted detection that arrives while it is full evicts the oldest
\* entry, keeps the others in order and puts the new name last.
C2_HistoryRingEviction ==
    /\ [](Len(gesture_history) <= history_length)
    /\ [][(/\ call'.op = "detect_gesture"
           /\ ret'[2][1] # "unknown"
           /\ Len(gesture_history) = history_length)
          => /\ Len(gesture_history') = history_length
             /\ \A i \in 1..(history_length - 1) :
                    gesture_history'[i] = gesture_history[i + 1]
             /\ gesture_history'[history_length] = ret'[2][1]]_vars

C2_Witness ==
    /\ call.op = "detect_gesture"
    /\ ret = Return(<<"fist", 95>>)
    /\ Len(history_before) = history_length
    /\ history_before[1] = "open_palm"
    /\ history_before[2] = "peace"
    /\ gesture_history = Tail(history_before) \o <<"fist">>

\* C3: the gesture history never contains "unknown": every entry is the name
\* of a registered gesture definition.
C3_HistoryHoldsRegisteredNames ==
    \A i \in 1..Len(gesture_history) :
        /\ gesture_history[i] # "unknown"
        /\ gesture_history[i] \in DOMAIN gesture_definitions

\* a rejected frame has just been seen by a history that holds accepted names
C3_Witness ==
    /\ call.op = "detect_gesture"
    /\ ret = Return(<<"unknown", 0>>)
    /\ Len(gesture_history) = history_length
    /\ Cardinality({gesture_history[i] : i \in 1..Len(gesture_history)}) > 1

\* C4: detect_gesture(None) returns ("unknown", 0.0) and leaves the gesture
\* history unchanged, whatever the history holds.
C4_DetectNone ==
    [][(call'.op = "detect_gesture" /\ call'.landmarks = None)
          => /\ ret' = Return(<<"unknown", 0>>)
             /\ gesture_history' = gesture_history]_vars

C4_Witness ==
    /\ call.op = "detect_gesture"
    /\ call.landmarks = None
    /\ Len(history_before) = history_length
    /\ gesture_history = history_before

\* C5: detect_gesture_combination returns None while the history has fewer
\* than 3 entries; with 3 or more it returns "sustained_<name>" iff the last 3
\* entries are the same name and "combination" otherwise; in particular
\* "sustained_fist" after fist, fist, fist and "combination" after fist,
\* peace, fist.
C5_CombinationContract ==
    call.op = "detect_gesture_combination" =>
        LET n == Len(gesture_history)
        IN  /\ n < 3 => ret = ReturnNone
            /\ n >= 3 =>
                  /\ ret[1] = "return"
                  /\ ret[2] \in {"combination"}
                                \cup {"sustained_" \o GestureNames[k] : k \in 1..Len(GestureNames)}
                  /\ (ret[2] = "sustained_" \o gesture_history[n])
                        <=> (/\ gesture_history[n - 2] = gesture_history[n - 1]
                             /\ gesture_history[n - 1] = gesture_history[n])
                  /\ (ret[2] = "combination")
                        <=> ~(/\ gesture_history[n - 2] = gesture_history[n - 1]
                              /\ gesture_history[n - 1] = gesture_history[n])
            /\ gesture_history = <<"fist", "fist", "fist">> => ret = Return("sustained_fist")
            /\ gesture_history = <<"fist", "peace", "fist">> => ret = Return("combination")

C5_Witness ==
    /\ call.op = "detect_gesture_combination"
    /\ gesture_history = <<"fist", "peace", "fist">>
    /\ ret = Return("combination")

\* C6: with the default definitions, a landmark set whose 5 fingertips all
\* have a strictly smaller vertical coordinate than their proximal joints
\* yields ("open_palm", 1.0), and one with no finger extended ("fist", 0.95).
C6_OpenPalmAndFist ==
    DetectedLandmarks =>
        LET above(k) == call.landmarks[finger_tips[k]][2] < call.landmarks[finger_pips[k]][2]
        IN  /\ (\A k \in Fingers : above(k)) => ret = Return(<<"open_palm", 100>>)
            /\ (\A k \in Fingers : ~above(k)) => ret = Return(<<"fist", 95>>)

\* no finger extended, every tip level with its joint
C6_Witness ==
    /\ DetectedLandmarks
    /\ \A k \in Fingers :
          call.landmarks[finger_tips[k]][2] = call.landmarks[finger_pips[k]][2]
    /\ ret = Return(<<"fist", 95>>)
----------------------------------------------------------------------------
(* Claims about HandTrackingOptimizer *)

\* last + (last - second_to_last), for a buffer of at least 2 positions
Extrapolated(buffer) ==
    LET n == Len(buffer)
    IN  [c \in 1..3 |-> buffer[n][c] + (buffer[n][c] - buffer[n - 1][c])]

\* C7 (SpecHosted): handle_occlusion with a confidence below 0.3 and a
\* non-empty position buffer (any length >= 1) returns the predicted next
\* position, last + (last - second_to_last): not the raw input and not None,
\* even when the raw input is not None (the case stated here).
C7_OcclusionReturnsPrediction ==
    (/\ call.op = "handle_occlusion"
     /\ call.landmarks # None
     /\ call.confidence < 30
     /\ Len(position_buffer) >= 1)
    => /\ ret[1] = "return"
       /\ ret # ReturnOpt(call.landmarks)
       /\ Len(position_buffer) >= 2 => ret[2] = Extrapolated(position_buffer)

\* C8 (SpecHosted): predict_next_position returns None when the position
\* buffer holds 0 or 1 samples; when its last two samples are p and p + v it
\* returns p + 2v; it does not modify the position buffer.
C8_PredictNextPosition ==
    [][call'.op = "predict_next_position" =>
          LET n == Len(position_buffer)
          IN  /\ position_buffer' = position_buffer
              /\ n < 2 => ret' = ReturnNone
              /\ n >= 2 =>
                    LET p == position_buffer[n - 1]
                        v == [c \in 1..3 |-> position_buffer[n][c] - p[c]]
                    IN  ret' = Return([c \in 1..3 |-> p[c] + 2 * v[c]])]_vars

\* a prediction from a full buffer whose last two samples differ from its
\* first two
C8_Witness ==
    /\ call.op = "predict_next_position"
    /\ Len(position_buffer) = buffer_size
    /\ position_buffer[buffer_size] # position_buffer[buffer_size - 1]
    /\ position_buffer[2] = position_buffer[1]
    /\ ret = Return(Extrapolated(position_buffer))

\* C9 (SpecOptimizer): smooth_landmarks on a landmark set whose length is not
\* 21 reports an error to the caller; it never returns a result.
C9_LengthMismatchIsError ==
    (/\ call.op = "smooth_landmarks"
     /\ call.landmarks # None
     /\ LandmarksLen(call.landmarks) # NumLandmarks)
    => ret[1] = "raise"

\* C10 (SpecOptimizer): smooth_landmarks(None) returns None without raising
\* and changes no filter state and neither deque.
C10_SmoothNone ==
    [][(call'.op = "smooth_landmarks" /\ call'.landmarks = None)
          => /\ ret' = ReturnNone
             /\ kalman_filters' = kalman_filters
             /\ position_buffer' = position_buffer
             /\ velocity_history' = velocity_history]_vars

\* None arrives after frames that initialized the filters
C10_Witness ==
    /\ call.op = "smooth_landmarks"
    /\ call.landmarks = None
    /\ ret = ReturnNone
    /\ \A i \in FilterIndices : kalman_filters[i].initialized
    /\ frames = MaxFrames
----------------------------------------------------------------------------
(* Claims about KalmanFilter and the filter bank, checked under SpecFilters *)

\* the step just taken is a smoothing pass of either optimizer on 21 points
SmoothedFullSet ==
    /\ call.op \in {"smooth_landmarks", "other.smooth_landmarks"}
    /\ call.landmarks # None
    /\ LandmarksLen(call.landmarks) = NumLandmarks

\* a landmark set as rationals
RawAsRat(landmarks) == [i \in DOMAIN landmarks |-> ToRatPoint(landmarks[i])]

\* C11: on a fresh filter update(z) returns z and leaves the filter
\* initialized with estimate z and error variance 1.0; the predict() that
\* follows returns z; hence the first smooth_landmarks call on a fresh
\* optimizer returns the raw landmark set unchanged.
C11_InitializationIdentity ==
    /\ [][(/\ call'.op = "KalmanFilter.update"
           /\ ~kalman_filters[call'.index].initialized)
          => /\ ret' = Return(ToRatPoint(call'.landmarks))
             /\ kalman_filters'[call'.index] =
                   [x |-> ToRatPoint(call'.landmarks), p |-> <<1, 1>>,
                    initialized |-> TRUE]]_vars
    /\ [][(/\ call'.op = "KalmanFilter.predict"
           /\ call.op = "KalmanFilter.update"
           /\ call.index = call'.index
           /\ kalman_filters[call.index].p = <<1, 1>>)
          => /\ ret' = Return(ToRatPoint(call.landmarks))
             /\ kalman_filters'[call'.index].x = ToRatPoint(call.landmarks)]_vars
    /\ [](SmoothedFullSet /\ frames = 1 => ret = Return(RawAsRat(call.landmarks)))

\* predict has just returned the observation of the update before it
C11_Witness ==
    /\ call.op = "KalmanFilter.predict"
    /\ frames = 2
    /\ kalman_filters[call.index].initialized
    /\ kalman_filters[call.index].p = <<11, 10>>
    /\ ret = Return(kalman_filters[call.index].x)
    /\ ret[2][1] # <<0, 1>>

\* squared Euclidean distance of two points with rational coordinates
Dist2(a, b) ==
    LET d(c) == RSub(a[c], b[c])
    IN  RAdd(RAdd(RMul(d(1), d(1)), RMul(d(2), d(2))), RMul(d(3), d(3)))

\* a <= b
RLeq(a, b) == ~RLess(b, a)

\* C12 (SpecOptimizer): for a constant input stream the distance between the
\* smoothed value of each landmark and the input never increases from one
\* frame to the next.  Stated for two successive passes on the same landmark
\* set, and for every pass as: the pass moves no initialized filter's
\* estimate away from the observation it is given.
C12_MonotoneConvergence ==
    /\ [][(/\ call.op = "smooth_landmarks"
           /\ call'.op = "smooth_landmarks"
           /\ call'.landmarks # None
           /\ call.landmarks = call'.landmarks
           /\ ret[1] = "return"
           /\ ret'[1] = "return")
          => \A i \in FilterIndices :
                RLeq(Dist2(ret'[2][i], ToRatPoint(call'.landmarks[i])),
                     Dist2(ret[2][i], ToRatPoint(call'.landmarks[i])))]_vars
    /\ [][(call'.op = "smooth_landmarks" /\ call'.landmarks # None)
          => \A i \in FilterIndices \cap DOMAIN call'.landmarks :
                kalman_filters[i].initialized =>
                    RLeq(Dist2(kalman_filters'[i].x, ToRatPoint(call'.landmarks[i])),
                         Dist2(kalman_filters[i].x, ToRatPoint(call'.landmarks[i])))]_vars

\* the second frame of a constant stream: two passes have run on every
\* filter and the output is still the input
C12_Witness ==
    /\ call.op = "smooth_landmarks"
    /\ call.landmarks # None
    /\ LandmarksLen(call.landmarks) = NumLandmarks
    /\ frames = 2
    /\ \A i \in FilterIndices : kalman_filters[i].p = <<23, 120>>
    /\ ret = Return(RawAsRat(call.landmarks))

----------------------------------------------------------------------------
(* Further claims about AdvancedGestureRecognizer, checked under Spec *)

\* the registered gestures whose definition has no expected finger count
Countless ==
    {GestureNames[i] : i \in {j \in 1..Len(GestureNames) :
        "fingers_extended" \notin DOMAIN gesture_definitions[GestureNames[j]]}}

\* C13: a definition without an expected finger count ("thumbs_up" in the
\* default table) scores 0 for every finger count, detect_gesture never
\* returns its name and the gesture history never contains it.
C13_CountlessUnreachable ==
    /\ Countless = {"thumbs_up"}
    /\ \A g \in Countless : \A fingers \in 0..5 :
          CalculateGestureScore(fingers, g, gesture_definitions[g]) = 0
    /\ call.op = "detect_gesture" =>
          /\ ret[1] = "return"
          /\ ret[2][1] \notin Countless
    /\ \A i \in 1..Len(gesture_history) : gesture_history[i] \notin Countless

\* a hand with only the thumb up has been shown: it is taken for "point"
C13_Witness ==
    /\ call.op = "detect_gesture"
    /\ call.landmarks = HandLandmarks({1}, 2)
    /\ ret = Return(<<"point", 88>>)
    /\ gesture_history # <<>>
    /\ Last(gesture_history) = "point"

\* C15: detect_gesture selects the highest-scoring definition, and of several
\* definitions that share the highest score the one registered first; so an
\* input with 3 or 4 extended fingers, on which every definition scores 0,
\* selects the first definition with score 0, and the result is
\* ("unknown", 0.0) with the history untouched.
C15_FirstRegisteredWinsTies ==
    DetectedLandmarks =>
        LET fingers == CountExtendedFingers(call.landmarks)
            items == GestureScores(fingers)
            w == Winner(call.landmarks)
        IN  /\ \E i \in 1..Len(items) :
                  /\ items[i] = w
                  /\ \A j \in 1..Len(items) : items[j][2] <= w[2]
                  /\ \A j \in 1..(i - 1) : items[j][2] < w[2]
            /\ fingers \in {3, 4} =>
                  /\ \A j \in 1..Len(items) : items[j][2] = 0
                  /\ w = <<GestureNames[1], 0>>
                  /\ ret = Return(<<"unknown", 0>>)
                  /\ gesture_history = history_before

\* after an accepted detection, a hand with 3 and a hand with 4 extended
\* fingers have been rejected
C15_Witness ==
    /\ DetectedLandmarks
    /\ CountExtendedFingers(call.landmarks) = 4
    /\ ret = Return(<<"unknown", 0>>)
    /\ gesture_history # <<>>
    /\ gesture_history = history_before

----------------------------------------------------------------------------
(* Further claims about HandTrackingOptimizer with a host that fills the
   deques, checked under SpecHosted *)

\* C14: get_tracking_quality reports smoothness = len(position_buffer) /
\* buffer_size, which lies in [0, 1] in every reachable state, and stability
\* 1.0 iff at least 2 velocity samples exist, else 0.0; the call changes no
\* state of the optimizer.
C14_TrackingQuality ==
    /\ [](Len(position_buffer) \in 0..buffer_size)
    /\ [][call'.op = "get_tracking_quality" =>
            /\ ret'[1] = "return"
            /\ ret'[2].smoothness = Rat(Len(position_buffer), buffer_size)
            /\ RLeq(Rat(0, 1), ret'[2].smoothness)
            /\ RLeq(ret'[2].smoothness, Rat(1, 1))
            /\ ret'[2].stability \in {Rat(0, 1), Rat(1, 1)}
            /\ (ret'[2].stability = Rat(1, 1) <=> Len(velocity_history) >= 2)
            /\ UNCHANGED stabilizer_vars]_vars

\* the quality of a full position buffer and a single velocity sample
C14_Witness ==
    /\ call.op = "get_tracking_quality"
    /\ Len(position_buffer) = buffer_size
    /\ Len(velocity_history) = 1
    /\ ret = Return([smoothness |-> Rat(1, 1), stability |-> Rat(0, 1)])

\* C18: handle_occlusion returns its landmarks argument unchanged whenever
\* the confidence is >= 0.3 (exactly 0.3 included) or position_buffer is
\* empty, whatever the other argument is, and it never modifies
\* position_buffer, velocity_history or the filters.
C18_OcclusionPassThrough ==
    [][call'.op = "handle_occlusion" =>
         /\ (call'.confidence >= 30 \/ position_buffer = <<>>)
               => ret' = ReturnOpt(call'.landmarks)
         /\ UNCHANGED <<position_buffer, velocity_history, kalman_filters>>]_vars

\* a detected hand at confidence exactly 0.3 came back unchanged although a
\* prediction was available
C18_Witness ==
    /\ call.op = "handle_occlusion"
    /\ call.confidence = 30
    /\ call.landmarks # None
    /\ Len(position_buffer) >= 2
    /\ ret = Return(call.landmarks)

----------------------------------------------------------------------------
(* Further claims about KalmanFilter and the filter bank, checked under
   SpecFilters *)

\* the error variance an update leaves on a filter of variance p:
\* (1 - k) * p with k = p / (p + 0.1), that is p * 0.1 / (p + 0.1)
UpdatedVariance(p) == RDiv(RMul(p, <<1, 10>>), RAdd(p, <<1, 10>>))

\* C16: predict() on an initialized filter increases the error variance by
\* exactly 0.1 and returns the estimate, leaving the estimate and the
\* initialized flag unchanged; on an uninitialized filter it returns None
\* and changes nothing; update() never adds process noise (it sets the
\* variance to 1.0 on the first observation and to (1 - k) * p afterwards).
C16_PredictAddsNoiseUpdateDoesNot ==
    /\ [][call'.op = "KalmanFilter.predict" =>
            LET f == kalman_filters[call'.index]
                g == kalman_filters'[call'.index]
            IN  IF f.initialized
                THEN /\ g.p = RAdd(f.p, <<1, 10>>)
                     /\ g.x = f.x
                     /\ g.initialized
                     /\ ret' = Return(f.x)
                ELSE /\ g = f
                     /\ ret' = ReturnNone]_vars
    /\ [][call'.op = "KalmanFilter.update" =>
            LET f == kalman_filters[call'.index]
                g == kalman_filters'[call'.index]
            IN  /\ g.initialized
                /\ IF f.initialized
                   THEN g.p = UpdatedVariance(f.p) /\ RLess(g.p, f.p)
                   ELSE g.p = <<1, 1>>]_vars
    /\ [][(call'.op = "smooth_landmarks" /\ call'.landmarks # None) =>
            \A i \in FilterIndices \cap DOMAIN call'.landmarks :
                kalman_filters'[i].p =
                    IF kalman_filters[i].initialized
                    THEN RAdd(UpdatedVariance(kalman_filters[i].p), <<1, 10>>)
                    ELSE <<11, 10>>]_vars

\* predict() called on a filter that a smoothing pass had left with variance
\* 1.1: the variance is 1.2 and the estimate came back
C16_Witness ==
    /\ call.op = "KalmanFilter.predict"
    /\ kalman_filters[call.index].initialized
    /\ kalman_filters[call.index].p = <<6, 5>>
    /\ ret = Return(kalman_filters[call.index].x)

\* C17: each landmark's filter is independent of every other: in a smoothing
\* pass the new state and the output of index i are a function of filter i's
\* previous state and of landmarks[i] alone, a call on filter i leaves every
\* filter j # i as it was, and a call on one optimizer leaves the filters of
\* another optimizer as they were.
C17_FiltersIndependent ==
    /\ [][(call'.op = "smooth_landmarks" /\ call'.landmarks # None) =>
            /\ \A i \in FilterIndices :
                  IF i \in DOMAIN call'.landmarks
                  THEN /\ kalman_filters'[i] =
                             FilterStep(kalman_filters[i], ToRatPoint(call'.landmarks[i]))
                       /\ ret'[1] = "return" => ret'[2][i] = kalman_filters'[i].x
                  ELSE kalman_filters'[i] = kalman_filters[i]
            /\ other_filters' = other_filters]_vars
    /\ [][(call'.op = "other.smooth_landmarks" /\ call'.landmarks # None) =>
            /\ \A i \in FilterIndices \cap DOMAIN call'.landmarks :
                  other_filters'[i] =
                      FilterStep(other_filters[i], ToRatPoint(call'.landmarks[i]))
            /\ kalman_filters' = kalman_filters]_vars
    /\ [][call'.op \in {"KalmanFilter.update", "KalmanFilter.predict"} =>
            /\ \A j \in FilterIndices \ {call'.index} :
                  kalman_filters'[j] = kalman_filters[j]
            /\ other_filters' = other_filters]_vars

\* filter 0 of one optimizer has been updated directly after a pass on the
\* other optimizer: its neighbours are still fresh, the other bank is not
C17_Witness ==
    /\ call.op = "KalmanFilter.update"
    /\ call.index = 0
    /\ kalman_filters[0].initialized
    /\ \A j \in FilterIndices \ {0} : ~kalman_filters[j].initialized
    /\ \A j \in FilterIndices : other_filters[j].initialized

----------------------------------------------------------------------------
(* Further claims about HandTrackingOptimizer on its own, checked under
   SpecOptimizer *)

\* C19: no operation of HandTrackingOptimizer adds an entry to
\* position_buffer or velocity_history, so in every state reached through
\* its operations both are empty: predict_next_position returns None,
\* handle_occlusion returns its input for every confidence, and
\* get_tracking_quality reports smoothness 0 and stability 0.0.
C19_BuffersStayEmpty ==
    /\ position_buffer = <<>>
    /\ velocity_history = <<>>
    /\ call.op = "predict_next_position" => ret = ReturnNone
    /\ call.op = "handle_occlusion" => ret = ReturnOpt(call.landmarks)
    /\ call.op = "get_tracking_quality" =>
          ret = Return([smoothness |-> <<0, 1>>, stability |-> <<0, 1>>])

\* after the smoothing passes, a hand reported with confidence 0 came back
\* from handle_occlusion as it went in
C19_Witness ==
    /\ call.op = "handle_occlusion"
    /\ call.confidence = 0
    /\ call.landmarks # None
    /\ frames = MaxFrames
    /\ \A i \in FilterIndices : kalman_filters[i].initialized
    /\ ret = Return(call.landmarks)

----------------------------------------------------------------------------
(* A claim about temporal patterns of AdvancedGestureRecognizer, checked
   under Spec *)

\* detect_gesture_combination has just returned a label
CombinationLabelled ==
    /\ call.op = "detect_gesture_combination"
    /\ ret[1] = "return"

\* C20: rejected frames (None landmarks or a best score below the threshold)
\* between accepted detections do not interrupt or reset a temporal pattern:
\* a rejected frame leaves the history as it was, detect_gesture_combination
\* returns a label exactly when the history holds 3 names, "sustained_fist"
\* when the last 3 are "fist", the history never gets shorter, and so once
\* detect_gesture_combination has returned a label it never returns None
\* again.
C20_RejectedFramesKeepPattern ==
    /\ [][(call'.op = "detect_gesture" /\ ret' = Return(<<"unknown", 0>>))
            => gesture_history' = gesture_history]_vars
    /\ [][Len(gesture_history') >= Len(gesture_history)]_vars
    /\ [](call.op = "detect_gesture_combination" =>
            /\ ret = ReturnNone <=> Len(gesture_history) < 3
            /\ ret[1] = "return" <=> Len(gesture_history) >= 3
            /\ (/\ Len(gesture_history) >= 3
                /\ \A i \in 0..2 :
                      gesture_history[Len(gesture_history) - i] = "fist")
                  => ret = Return("sustained_fist"))
    /\ [](CombinationLabelled => labelled)
    /\ []((labelled /\ call.op = "detect_gesture_combination") => ret[1] = "return")

\* after a label has been returned, a hand that no definition matches well
\* enough arrives while the last 3 accepted names are "fist": the pattern is
\* still there
C20_Witness ==
    /\ labelled
    /\ DetectedLandmarks
    /\ ret = Return(<<"unknown", 0>>)
    /\ gesture_history = history_before
    /\ Len(gesture_history) >= 3
    /\ GestureCombination(gesture_history) = Return("sustained_fist")
====
